---- MODULE Spec2Model ----
(***************************************************************************)
(* Study Assistant API (src/main.py): the request handlers of the FastAPI  *)
(* application, the document store they call through database.py, and the  *)
(* external translation service they call through requests.post.           *)
(*                                                                         *)
(* Texts are sequences of one-character strings, so that trimming,         *)
(* sentence splitting, keyword extraction and regular-expression matching  *)
(* are computed character by character as the Python code computes them.   *)
(* Language codes, tags, session ids and error messages are only compared  *)
(* for equality and emptiness by the code and are TLA+ strings.            *)
(***************************************************************************)
EXTENDS Integers, Sequences, FiniteSets, TLC

VARIABLES
    db,                \* database.db: TRUE when the store handle was initialized, FALSE when it is None
    memorynote,        \* the "memorynote" collection, in insertion order
    conversationturn,  \* the "conversationturn" collection, in insertion order
    request,           \* the request being answered (route and parameters)
    response,          \* the HTTP response of that request
    translation,       \* the call to TRANSLATE_URL / LIBRE_URL made while answering it
    storeio            \* the call to database.py made while answering it

vars == <<db, memorynote, conversationturn, request, response, translation, storeio>>

(***************************************************************************)
(* Bounds of the model.                                                    *)
(***************************************************************************)
\* longest text enumerated for /api/summarize and /api/translate
MaxLen == 8
\* notes saved on top of the notes the store already holds
MaxNotes == 2
\* conversation turns logged
MaxTurns == 1

(***************************************************************************)
(* Python values.                                                          *)
(***************************************************************************)
\* Optional[str] = None
None == "None"

\* values of an optional target_lang
TargetLangs == {None, "", "es"}

\* truthiness of an Optional[str]: None and "" are falsy
Truthy(s) == s /= None /\ s /= ""

\* str.isspace of one character, and the class \s of re
IsSpace(c) == c \in {" ", "\n", "\t"}

\* the character class [.!?] of the sentence pattern
IsPunct(c) == c \in {".", "!", "?"}

RECURSIVE LStrip(_)
LStrip(s) ==
    IF s /= <<>> /\ IsSpace(Head(s)) THEN LStrip(Tail(s)) ELSE s

RECURSIVE RStrip(_)
RStrip(s) ==
    IF s /= <<>> /\ IsSpace(s[Len(s)]) THEN RStrip(SubSeq(s, 1, Len(s) - 1)) ELSE s

\* str.strip()
Strip(s) == RStrip(LStrip(s))

\* last index of the whitespace run that starts at i (the greedy \s+)
RunEnd(s, i) ==
    CHOOSE j \in i..Len(s) :
        /\ \A k \in i..j : IsSpace(s[k])
        /\ j = Len(s) \/ ~IsSpace(s[j + 1])

\* where the pattern (?<=[.!?])\s+ matches: at a whitespace character that
\* follows '.', '!' or '?', through the whole run of whitespace
MatchStarts(s) == { i \in 2..Len(s) : IsSpace(s[i]) /\ IsPunct(s[i - 1]) }

\* the k-th smallest element of a set of integers
Nth(S, k) == CHOOSE x \in S : Cardinality({ y \in S : y < x }) = k - 1

\* re.split(r"(?<=[.!?])\s+", text): the pieces between the matches
SplitSentences(text) ==
    LET m == MatchStarts(text)
        first == {1} \cup { RunEnd(text, i) + 1 : i \in m }
        last == { i - 1 : i \in m } \cup { Len(text) }
    IN  [k \in 1..(Cardinality(m) + 1) |-> SubSeq(text, Nth(first, k), Nth(last, k))]

\* sep.join(parts)
RECURSIVE Join(_, _)
Join(parts, sep) ==
    IF parts = <<>> THEN <<>>
    ELSE IF Len(parts) = 1 THEN parts[1]
    ELSE parts[1] \o sep \o Join(Tail(parts), sep)

\* s[:n]
Take(s, n) == SubSeq(s, 1, IF Len(s) < n THEN Len(s) ELSE n)

(***************************************************************************)
(* The external translation service (requests.post to TRANSLATE_URL).      *)
(* One call ends in one of: the endpoint is unreachable (requests.post     *)
(* raises), the body is not JSON (r.json() raises), the body is a JSON     *)
(* object without "translatedText", the body is JSON but not an object,    *)
(* or the body is an object carrying "translatedText".                     *)
(***************************************************************************)
TranslatedTexts == { <<"t", "r", ".">>, <<"x">> }

Outcome(kind, text) == [kind |-> kind, text |-> text]

TranslationOutcomes ==
    { Outcome(k, <<>>) : k \in {"unreachable", "not_json", "no_key", "not_dict"} }
    \cup { Outcome("ok", t) : t \in TranslatedTexts }

\* requests.post(...) or r.json() raises
Raises(o) == o.kind \in {"unreachable", "not_json"}

\* isinstance(data, dict) and "translatedText" in data
HasTranslatedText(o) == o.kind = "ok"

\* str(e) of the exception a failed call raises
ErrorText(o) ==
    IF o.kind = "unreachable" THEN "connection error" ELSE "invalid json"

NoCall == [called |-> FALSE, q |-> <<>>, target |-> "", outcome |-> Outcome("none", <<>>)]

Call(q, target, o) == [called |-> TRUE, q |-> q, target |-> target, outcome |-> o]

NoStoreIo == [called |-> FALSE, op |-> "none", collection |-> "none", ok |-> TRUE]

(***************************************************************************)
(* Responses.                                                              *)
(***************************************************************************)
NoResponse == [status |-> 0, detail |-> "", body |-> [pending |-> TRUE]]

Ok(body) == [status |-> 200, detail |-> "", body |-> body]

\* raise HTTPException(status_code=code, detail=detail)
HTTPException(code, detail) == [status |-> code, detail |-> detail, body |-> [detail |-> detail]]

(***************************************************************************)
(* POST /api/summarize                                                     *)
(***************************************************************************)
\* a middle index taken one sentence too early for an even count
MidIndexOff(n) == (n - 1) \div 2

\* the sentence picked between the first and the last: len(sentences) // 2
MidIndex(n) == n \div 2

\* the sentence count up to which the text is returned whole
WholeTextLimit == 3

\* the fallback summary by sentence splitting
HeuristicSummary(text) ==
    LET sentences == SplitSentences(text)
        n == Len(sentences)
    IN  IF n <= WholeTextLimit THEN text
        ELSE Join(<< sentences[1], sentences[MidIndex(n) + 1], sentences[n] >>, <<" ">>)

\* a handler that reports the exception as translate_text does
SummarizeOnRaiseOff(summary, o) == HTTPException(500, ErrorText(o))

\* except Exception: pass  -- the untranslated summary is returned
SummarizeOnRaise(summary, o) == Ok([summary |-> summary])

summarize(payload, o) ==
    LET text == Strip(payload.text)
        summary == HeuristicSummary(text)
    IN  /\ request' = [route |-> "POST /api/summarize", text |-> payload.text,
                       target_lang |-> payload.target_lang]
        /\ IF text = <<>>
           THEN /\ response' = HTTPException(400, "Text is required")
                /\ translation' = NoCall
           ELSE IF Truthy(payload.target_lang)
           THEN /\ translation' = Call(summary, payload.target_lang, o)
                /\ response' = IF Raises(o) THEN SummarizeOnRaise(summary, o)
                               ELSE IF HasTranslatedText(o) THEN Ok([summary |-> o.text])
                               ELSE Ok([summary |-> summary])
           ELSE /\ translation' = NoCall
                /\ response' = Ok([summary |-> summary])
        /\ storeio' = NoStoreIo
        /\ UNCHANGED <<db, memorynote, conversationturn>>

(***************************************************************************)
(* POST /api/translate                                                     *)
(***************************************************************************)
translate_text(payload, o) ==
    LET target == IF Truthy(payload.target_lang) THEN payload.target_lang ELSE "en"
    IN  /\ request' = [route |-> "POST /api/translate", text |-> payload.text,
                       target_lang |-> payload.target_lang]
        /\ translation' = Call(payload.text, target, o)
        /\ response' = IF Raises(o) THEN HTTPException(500, ErrorText(o))
                       ELSE IF HasTranslatedText(o)
                       THEN Ok([translated |-> o.text, target |-> target])
                       ELSE Ok([translated |-> payload.text, target |-> target])
        /\ storeio' = NoStoreIo
        /\ UNCHANGED <<db, memorynote, conversationturn>>

(***************************************************************************)
(* POST /api/detect                                                        *)
(***************************************************************************)
\* what the detection endpoint (LIBRE_URL) answers: the call raises, the body
\* is no list, an empty list, a list whose first item is no object, or a list
\* whose first item is an object with or without the two keys
Detection(kind, language, confidence) ==
    [kind |-> kind, language |-> language, confidence |-> confidence]

DetectionOutcomes ==
    { Detection(k, "", 0) :
        k \in {"unreachable", "not_json", "not_list", "empty_list", "bad_item", "no_keys"} }
    \cup { Detection("ok", "es", 90) }

detect_language(payload, o) ==
    /\ request' = [route |-> "POST /api/detect", text |-> payload.text,
                   target_lang |-> payload.target_lang]
    /\ translation' = Call(payload.text, "", o)
    /\ response' = IF o.kind = "ok"
                   THEN Ok([language |-> o.language, confidence |-> o.confidence])
                   ELSE Ok([language |-> "auto", confidence |-> 0])
    /\ storeio' = NoStoreIo
    /\ UNCHANGED <<db, memorynote, conversationturn>>

(***************************************************************************)
(* The document store behind database.py.  A stored document is a function *)
(* from field names to values; "_id" holds the store-native identifier     *)
(* (an ObjectId), modelled as a record [oid |-> n] that is no string.      *)
(***************************************************************************)

Digits == <<"0", "1", "2", "3", "4", "5", "6", "7", "8", "9">>

\* str(n) of a natural number
RECURSIVE NatStr(_)
NatStr(n) ==
    IF n < 10 THEN << Digits[n + 1] >>
    ELSE NatStr(n \div 10) \o << Digits[(n % 10) + 1] >>

ObjectId(n) == [oid |-> n]

\* str(ObjectId)
Str(id) == NatStr(id.oid)

\* the next identifier the store assigns: unique over both collections
NewId(mem, conv) == ObjectId(Len(mem) + Len(conv) + 1)

\* the document stored for a record: its fields and the assigned "_id"
Stored(data, id) ==
    [k \in DOMAIN data \cup {"_id"} |-> IF k = "_id" THEN id ELSE data[k]]

UpperCase == <<"A", "B", "C", "D", "E", "F", "G", "H", "I", "J", "K", "L", "M",
               "N", "O", "P", "Q", "R", "S", "T", "U", "V", "W", "X", "Y", "Z">>

LowerCase == <<"a", "b", "c", "d", "e", "f", "g", "h", "i", "j", "k", "l", "m",
               "n", "o", "p", "q", "r", "s", "t", "u", "v", "w", "x", "y", "z">>

\* str.lower() of one character
LowerChar(c) ==
    IF \E i \in 1..26 : UpperCase[i] = c
    THEN LowerCase[CHOOSE i \in 1..26 : UpperCase[i] = c]
    ELSE c

\* str.lower()
Lower(s) == [i \in 1..Len(s) |-> LowerChar(s[i])]

\* one pattern character against one subject character under "$options": "i":
\* '.' matches any character but a newline, a letter matches itself in either case
RegexCharMatches(p, c) ==
    IF p = "." THEN c /= "\n" ELSE LowerChar(p) = LowerChar(c)

\* {"$regex": pattern, "$options": "i"} on a string field: the pattern, made
\* of literal characters and '.', matches somewhere in the subject
RegexSearch(pattern, subject) ==
    \E k \in 0..(Len(subject) - Len(pattern)) :
        \A i \in 1..Len(pattern) : RegexCharMatches(pattern[i], subject[k + i])

\* the query filters the handlers build
FilterAll == [kind |-> "all"]

FilterTagsIn(tag) == [kind |-> "tags_in", tag |-> tag]

FilterSession(session_id) == [kind |-> "session", session_id |-> session_id]

FilterOrRegex(keywords) == [kind |-> "or_regex", keywords |-> keywords]

\* whether a stored document matches a filter
Matches(d, f) ==
    CASE f.kind = "all" -> TRUE
      [] f.kind = "tags_in" -> \E i \in 1..Len(d["tags"]) : d["tags"][i] = f.tag
      [] f.kind = "session" -> d["session_id"] = f.session_id
      [] f.kind = "or_regex" ->
            \E i \in 1..Len(f.keywords) : RegexSearch(f.keywords[i], d["content"])

Select(coll, f) == SelectSeq(coll, LAMBDA d : Matches(d, f))

\* database.get_documents(collection_name, filter_dict, limit): the first
\* `limit` documents of the collection that match, in insertion order
get_documents(coll, f, limit) == Take(Select(coll, f), limit)

\* the exception database.py raises: the handle is None, or the operation failed
StoreError(handle) ==
    IF handle THEN "store operation failed" ELSE "Database not available"

StoreIo(op, collection, f, limit, ok, docs) ==
    [called |-> TRUE, op |-> op, collection |-> collection, filter |-> f,
     limit |-> limit, ok |-> ok, docs |-> docs]

\* database.create_document(collection_name, data): inserts the record into
\* the named collection under a new identifier
create_document(collection, data) ==
    LET d == Stored(data, NewId(memorynote, conversationturn))
    IN  /\ memorynote' =
              IF collection = "memorynote" THEN Append(memorynote, d) ELSE memorynote
        /\ conversationturn' =
              IF collection = "conversationturn" THEN Append(conversationturn, d)
              ELSE conversationturn

\* the collection a name designates
Collection(name) == IF name = "memorynote" THEN memorynote ELSE conversationturn

(***************************************************************************)
(* POST /api/memory, GET /api/memory, POST /api/conversation,              *)
(* GET /api/conversation                                                   *)
(***************************************************************************)
\* a handler that answers 200 although the store raised
OnStoreErrorOff(e) == Ok([id |-> <<>>, status |-> e])

\* except Exception as e: raise HTTPException(status_code=500, detail=str(e))
OnStoreError(e) == HTTPException(500, e)

\* the collection save_memory writes to
NoteCollection == "memorynote"

\* turns written to the collection of the notes
TurnCollectionOff == "memorynote"

\* the collection log_conversation writes to
TurnCollection == "conversationturn"

\* a listing that returns the documents as the store holds them
ConvertIdOff(d) == d

\* if "_id" in d: d["id"] = str(d.pop("_id"))
ConvertId(d) ==
    IF "_id" \in DOMAIN d
    THEN [k \in (DOMAIN d \ {"_id"}) \cup {"id"} |->
            IF k = "id" THEN Str(d["_id"]) ELSE d[k]]
    ELSE d

ConvertIds(docs) == [i \in 1..Len(docs) |-> ConvertId(docs[i])]

\* a tag filter applied even when no tag is given
ListFilterOff(tag) == FilterTagsIn(tag)

\* filter_dict = {"tags": {"$in": [tag]}} if tag else {}
ListFilter(tag) == IF Truthy(tag) THEN FilterTagsIn(tag) ELSE FilterAll

\* filter_dict = {"session_id": session_id} if session_id else {}
SessionFilter(session_id) ==
    IF Truthy(session_id) THEN FilterSession(session_id) ELSE FilterAll

\* the default of list_memory's limit
DefaultMemoryLimit == 50

\* the default of get_conversation's limit
DefaultConversationLimit == 100

\* the notes a store that has been in use for a while already holds: one
\* fewer than a default listing returns
Preload == DefaultMemoryLimit - 1

save_memory(note, ok) ==
    /\ request' = [route |-> "POST /api/memory", content |-> note.content, tags |-> note.tags]
    /\ translation' = NoCall
    /\ storeio' = StoreIo("create", NoteCollection, FilterAll, 0, db /\ ok, <<>>)
    /\ IF db /\ ok
       THEN /\ create_document(NoteCollection, note)
            /\ response' = Ok([id |-> Str(NewId(memorynote, conversationturn)),
                               status |-> "saved"])
       ELSE /\ response' = OnStoreError(StoreError(db))
            /\ UNCHANGED <<memorynote, conversationturn>>
    /\ UNCHANGED db

list_memory(tag, limit, ok) ==
    LET docs == get_documents(Collection("memorynote"), ListFilter(tag), limit)
    IN  /\ request' = [route |-> "GET /api/memory", tag |-> tag, limit |-> limit]
        /\ translation' = NoCall
        /\ storeio' = StoreIo("query", "memorynote", ListFilter(tag), limit, db /\ ok,
                              IF db /\ ok THEN docs ELSE <<>>)
        /\ response' = IF db /\ ok THEN Ok([items |-> ConvertIds(docs)])
                       ELSE OnStoreError(StoreError(db))
        /\ UNCHANGED <<db, memorynote, conversationturn>>

log_conversation(turn, ok) ==
    /\ request' = [route |-> "POST /api/conversation", session_id |-> turn.session_id,
                   role |-> turn.role, content |-> turn.content]
    /\ translation' = NoCall
    /\ storeio' = StoreIo("create", TurnCollection, FilterAll, 0, db /\ ok, <<>>)
    /\ IF db /\ ok
       THEN /\ create_document(TurnCollection, turn)
            /\ response' = Ok([id |-> Str(NewId(memorynote, conversationturn)),
                               status |-> "logged"])
       ELSE /\ response' = OnStoreError(StoreError(db))
            /\ UNCHANGED <<memorynote, conversationturn>>
    /\ UNCHANGED db

get_conversation(session_id, limit, ok) ==
    LET docs == get_documents(Collection("conversationturn"), SessionFilter(session_id), limit)
    IN  /\ request' = [route |-> "GET /api/conversation", session_id |-> session_id,
                       limit |-> limit]
        /\ translation' = NoCall
        /\ storeio' = StoreIo("query", "conversationturn", SessionFilter(session_id), limit,
                              db /\ ok, IF db /\ ok THEN docs ELSE <<>>)
        /\ response' = IF db /\ ok THEN Ok([items |-> ConvertIds(docs)])
                       ELSE OnStoreError(StoreError(db))
        /\ UNCHANGED <<db, memorynote, conversationturn>>

(***************************************************************************)
(* POST /api/ask                                                           *)
(***************************************************************************)
\* str.split(): the maximal runs of non-whitespace characters
RECURSIVE Words(_)
Words(s) ==
    LET t == LStrip(s)
        n == IF \E i \in 1..Len(t) : IsSpace(t[i])
             THEN (CHOOSE i \in 1..Len(t) :
                      IsSpace(t[i]) /\ \A j \in 1..(i - 1) : ~IsSpace(t[j])) - 1
             ELSE Len(t)
    IN  IF t = <<>> THEN <<>>
        ELSE << SubSeq(t, 1, n) >> \o Words(SubSeq(t, n + 1, Len(t)))

\* the length a token must exceed to be a keyword
KeywordMinLen == 3

\* keywords = [w.lower() for w in q.split() if len(w) > 3]
Keywords(q) ==
    LET w == SelectSeq(Words(q), LAMBDA x : Len(x) > KeywordMinLen)
    IN  [i \in 1..Len(w) |-> Lower(w[i])]

\* filter_dict = {"$or": [...]} if keywords else {}
AskFilter(keywords) ==
    IF keywords /= <<>> THEN FilterOrRegex(keywords) ELSE FilterAll

\* the number of notes ask_question retrieves
AskLimit == 20

\* the length the context is cut to
ContextLimit == 2000

AnswerHead ==
    << "B", "a", "s", "e", "d", " ", "o", "n", " ", "y", "o", "u", "r", " ", "s", "a",
       "v", "e", "d", " ", "n", "o", "t", "e", "s", ",", " ", "h", "e", "r", "e", "'",
       "s", " ", "w", "h", "a", "t", " ", "s", "e", "e", "m", "s", " ", "r", "e", "l",
       "e", "v", "a", "n", "t", ":", "\n" >>

AnswerMid ==
    << "\n", "\n", "I", "n", " ", "s", "u", "m", "m", "a", "r", "y", ":", " " >>

FallbackAnswer ==
    << "I", " ", "c", "o", "u", "l", "d", "n", "'", "t", " ", "f", "i", "n", "d", " ",
       "r", "e", "l", "a", "t", "e", "d", " ", "n", "o", "t", "e", "s", " ", "y", "e",
       "t", ".", " ", "T", "r", "y", " ", "s", "a", "v", "i", "n", "g", " ", "k", "e",
       "y", " ", "f", "a", "c", "t", "s", " ", "f", "i", "r", "s", "t", ",", " ", "o",
       "r", " ", "a", "s", "k", " ", "a", " ", "m", "o", "r", "e", " ", "s", "p", "e",
       "c", "i", "f", "i", "c", " ", "q", "u", "e", "s", "t", "i", "o", "n", "." >>

\* context = "\n".join(m.get("content", "") for m in mems)[:2000]
Context(mems) ==
    Take(Join([i \in 1..Len(mems) |->
                  IF "content" \in DOMAIN mems[i] THEN mems[i]["content"] ELSE <<>>],
              <<"\n">>), ContextLimit)

\* the answer built from the context, or the fallback when there is none
AnswerFrom(context) ==
    IF context /= <<>>
    THEN LET sentences == SplitSentences(context)
             n == Len(sentences)
         IN  AnswerHead \o context \o AnswerMid \o
             (IF n > 2
              THEN Join(<< sentences[1], sentences[(n \div 2) + 1], sentences[n] >>, <<" ">>)
              ELSE context)
    ELSE FallbackAnswer

\* a handler that reports the store's exception as the memory routes do
AskOnStoreErrorOff(answered, e) == HTTPException(500, e)

\* except Exception: mems = []  -- the answer goes on with no notes
AskOnStoreError(answered, e) == answered

ask_question(payload, ok, o) ==
    LET q == Strip(payload.question)
        f == AskFilter(Keywords(q))
        docs == get_documents(Collection("memorynote"), f, AskLimit)
        mems == IF db /\ ok THEN docs ELSE <<>>
        answer == AnswerFrom(Context(mems))
        translated == Truthy(payload.target_lang) /\ HasTranslatedText(o)
        answered == Ok([answer |-> IF translated THEN o.text ELSE answer])
    IN  /\ request' = [route |-> "POST /api/ask", question |-> payload.question,
                       target_lang |-> payload.target_lang]
        /\ IF q = <<>>
           THEN /\ response' = HTTPException(400, "Question is required")
                /\ storeio' = NoStoreIo
                /\ translation' = NoCall
           ELSE /\ storeio' = StoreIo("query", "memorynote", f, AskLimit, db /\ ok, mems)
                /\ translation' = IF Truthy(payload.target_lang)
                                  THEN Call(answer, payload.target_lang, o) ELSE NoCall
                /\ response' = IF db /\ ok THEN answered
                               ELSE AskOnStoreError(answered, StoreError(db))
        /\ UNCHANGED <<db, memorynote, conversationturn>>

(***************************************************************************)
(* GET / and GET /test                                                     *)
(***************************************************************************)
read_root ==
    /\ request' = [route |-> "GET /"]
    /\ response' = Ok([message |-> "Study Assistant Backend Running"])
    /\ translation' = NoCall
    /\ storeio' = NoStoreIo
    /\ UNCHANGED <<db, memorynote, conversationturn>>

\* db.list_collection_names(): the collections that hold a document
CollectionNames ==
    (IF memorynote /= <<>> THEN << "memorynote" >> ELSE <<>>)
    \o (IF conversationturn /= <<>> THEN << "conversationturn" >> ELSE <<>>)

\* names_ok: db.list_collection_names() succeeds; url_set, name_set: the
\* environment variables DATABASE_URL and DATABASE_NAME are set
test_database(names_ok, url_set, name_set) ==
    /\ request' = [route |-> "GET /test"]
    /\ response' = Ok([backend |-> "Running",
                       database |-> IF ~db THEN "Available but not initialized"
                                    ELSE IF names_ok THEN "Connected & Working"
                                    ELSE "Connected but Error",
                       database_url |-> IF url_set THEN "Set" ELSE "Not Set",
                       database_name |-> IF name_set THEN "Set" ELSE "Not Set",
                       connection_status |-> IF db THEN "Connected" ELSE "Not Connected",
                       collections |-> IF db /\ names_ok THEN Take(CollectionNames, 10)
                                       ELSE <<>>])
    /\ translation' = NoCall
    /\ storeio' = IF db THEN StoreIo("names", "none", FilterAll, 0, names_ok, <<>>)
                  ELSE NoStoreIo
    /\ UNCHANGED <<db, memorynote, conversationturn>>

(***************************************************************************)
(* The service: any sequence of requests.                                  *)
(***************************************************************************)
OldNote == [content |-> <<"o", "l", "d", ".">>, tags |-> <<"t1">>]

\* a collection of n notes saved earlier
Preloaded(n) == [i \in 1..n |-> Stored(OldNote, ObjectId(i))]

NoteInputs ==
    { [content |-> <<"a", "b", "c", "d">>, tags |-> <<"t1">>],
      [content |-> <<"A", "x", "C", "D", ".", " ", "e", "!", " ", "f", "?">>, tags |-> <<"", "t2">>] }

TurnInputs ==
    { [session_id |-> "s1", role |-> "user", content |-> <<"h", "i">>],
      [session_id |-> "s2", role |-> "assistant", content |-> <<"y", "o">>] }

TagInputs == {None, "", "t1", "t2"}

SessionInputs == {None, "", "s1"}

QuestionInputs == { <<"a", "b", " ", "c", "d">>, <<"w", "h", "y", " ", "A", ".", "c", "d">> }

\* the notes saved since the service started
Saved == IF Len(memorynote) >= Preload THEN Len(memorynote) - Preload ELSE Len(memorynote)

Init ==
    /\ db \in BOOLEAN
    /\ memorynote = <<>>
    /\ conversationturn = <<>>
    /\ request = [route |-> "none"]
    /\ response = NoResponse
    /\ translation = NoCall
    /\ storeio = NoStoreIo

SaveMemory ==
    \E note \in NoteInputs, ok \in BOOLEAN :
        /\ ok => Saved < MaxNotes
        /\ save_memory(note, ok)

ListMemory ==
    \E tag \in TagInputs, limit \in {1, DefaultMemoryLimit}, ok \in BOOLEAN :
        /\ limit = 1 => tag = None /\ ok
        /\ ~ok => tag \in {None, "t1"}
        /\ list_memory(tag, limit, ok)

LogConversation ==
    \E turn \in TurnInputs, ok \in BOOLEAN :
        /\ ok => Len(conversationturn) < MaxTurns
        /\ log_conversation(turn, ok)

GetConversation ==
    \E session_id \in SessionInputs, ok \in BOOLEAN :
        /\ ~ok => session_id \in {None, "s1"}
        /\ get_conversation(session_id, DefaultConversationLimit, ok)

Next ==
    \/ read_root
    \/ \E names_ok \in BOOLEAN : test_database(names_ok, TRUE, FALSE)
    \/ \E o \in { Detection("unreachable", "", 0), Detection("ok", "es", 90) } :
          detect_language([text |-> <<"a", ".">>, target_lang |-> None], o)
    \/ \E l \in {None, "es"}, o \in { Outcome("unreachable", <<>>), Outcome("ok", <<"x">>) } :
          translate_text([text |-> <<"a", ".">>, target_lang |-> l], o)
    \/ \E l \in {None, "es"}, o \in { Outcome("no_key", <<>>), Outcome("ok", <<"x">>) } :
          summarize([text |-> <<"a", ".", " ", "a">>, target_lang |-> l], o)
    \/ SaveMemory
    \/ ListMemory
    \/ LogConversation
    \/ GetConversation
    \/ \E q \in QuestionInputs, l \in {None, "es"}, ok \in BOOLEAN :
          ask_question([question |-> q, target_lang |-> l], ok, Outcome("ok", <<"x">>))

Spec == Init /\ [][Next]_vars

(***************************************************************************)
(* The memory routes on a store that already holds Preload notes.          *)
(***************************************************************************)
InitRoundTrip ==
    /\ db = TRUE
    /\ memorynote \in { <<>>, Preloaded(Preload) }
    /\ conversationturn = <<>>
    /\ request = [route |-> "none"]
    /\ response = NoResponse
    /\ translation = NoCall
    /\ storeio = NoStoreIo

NextRoundTrip == SaveMemory \/ ListMemory \/ LogConversation \/ GetConversation

SpecRoundTrip == InitRoundTrip /\ [][NextRoundTrip]_vars

(***************************************************************************)
(* POST /api/ask on every small store: one request, answered once.         *)
(* The questions hold letters, whitespace and '.', the pattern characters  *)
(* RegexSearch interprets.                                                 *)
(***************************************************************************)
\* notes of a store enumerated for /api/ask
MaxAskNotes == 2

AskContents ==
    { <<"a", "b", "c", "d">>,
      <<"A", "x", "C", "D", ".", " ", "e", "!", " ", "f", "?">>,
      <<"a", "b", " ", "c", "d">>,
      <<>> }

WithIds(contents) ==
    [i \in 1..Len(contents) |->
        Stored([content |-> contents[i], tags |-> <<>>], ObjectId(i))]

\* a store of more notes than one retrieval returns; the last one differs
LongStore ==
    [i \in 1..(AskLimit + 1) |->
        Stored([content |-> IF i <= AskLimit THEN <<"o", "l", "d", ".">> ELSE <<"n", "e", "w">>,
                tags |-> <<>>], ObjectId(i))]

AskStores ==
    { WithIds(c) : c \in UNION { [1..n -> AskContents] : n \in 0..MaxAskNotes } }
    \cup { LongStore }

AskQuestions ==
    { <<>>, <<" ", "\n">>,
      <<"a", "b", " ", "c", "d">>,
      <<" ", "i", "s", " ", "A", "B", "C", "D", " ">>,
      <<"w", "h", "y", " ", "a", ".", "c", "d">>,
      <<"z", "z", "z", "z", "z">> }

InitAsk ==
    /\ db \in BOOLEAN
    /\ memorynote \in AskStores
    /\ conversationturn = <<>>
    /\ request \in { [route |-> "POST /api/ask", question |-> q, target_lang |-> l] :
                        q \in AskQuestions, l \in TargetLangs }
    /\ response = NoResponse
    /\ translation = NoCall
    /\ storeio = NoStoreIo

NextAsk ==
    /\ response = NoResponse
    /\ \E ok \in BOOLEAN, o \in TranslationOutcomes : ask_question(request, ok, o)

SpecAsk == InitAsk /\ [][NextAsk]_vars

(***************************************************************************)
(* The text routes on every text up to MaxLen: one request, answered once. *)
(***************************************************************************)
Alphabet == {"a", ".", " "}

Texts == UNION { [1..n -> Alphabet] : n \in 0..MaxLen }

\* "a. b! c? d. e.", and a text whose sentences are separated by runs of
\* whitespace and that carries surrounding whitespace
ExampleTexts ==
    { <<"a", ".", " ", "b", "!", " ", "c", "?", " ", "d", ".", " ", "e", ".">>,
      <<" ", "a", ".", " ", "\n", "b", "?", "\t", "c", "!", " ", " ", "d", " ", "e", ".", " ", "f", "\n">>,
      <<"a", ".", "b", " ", "c", ".", " ", "d", " ", ".", " ", "e", " ", "f", "!", " ", "g", " ", "h">> }

SmallTexts == { <<>>, <<" ">>, <<"a", ".">>, <<"a", ".", " ", "a">> }

TextRequests ==
    { [route |-> "POST /api/summarize", text |-> t, target_lang |-> l] :
        t \in Texts \cup ExampleTexts, l \in {None, "es"} }
    \cup { [route |-> "POST /api/summarize", text |-> t, target_lang |-> ""] :
        t \in SmallTexts }
    \cup { [route |-> r, text |-> t, target_lang |-> l] :
        r \in {"POST /api/translate", "POST /api/detect"},
        t \in SmallTexts, l \in TargetLangs }

InitText ==
    /\ db = TRUE
    /\ memorynote = <<>>
    /\ conversationturn = <<>>
    /\ request \in TextRequests
    /\ response = NoResponse
    /\ translation = NoCall
    /\ storeio = NoStoreIo

AnswerSummarize ==
    /\ response = NoResponse
    /\ request.route = "POST /api/summarize"
    /\ \E o \in TranslationOutcomes : summarize(request, o)

AnswerTranslate ==
    /\ response = NoResponse
    /\ request.route = "POST /api/translate"
    /\ \E o \in TranslationOutcomes : translate_text(request, o)

AnswerDetect ==
    /\ response = NoResponse
    /\ request.route = "POST /api/detect"
    /\ \E o \in DetectionOutcomes : detect_language(request, o)

NextText == AnswerSummarize \/ AnswerTranslate \/ AnswerDetect

SpecText == InitText /\ [][NextText]_vars

\* sentence boundaries of a text: the characters '.', '!' or '?' that are
\* followed by whitespace
Boundaries(t) == { i \in 1..(Len(t) - 1) : IsPunct(t[i]) /\ IsSpace(t[i + 1]) }

Answered(route) == response /= NoResponse /\ request.route = route

C2_TranslateFailureIs500 ==
    Answered("POST /api/translate") =>
    LET o == translation.outcome
        target == IF request.target_lang \in {None, ""} THEN "en" ELSE request.target_lang
    IN  /\ o.kind /= "ok" => response.status = 500 /\ response.detail /= ""
        /\ response.status = 200 =>
              /\ o.kind = "ok"
              /\ response.body.translated = o.text
              /\ response.body.target = target

\* C3: POST /api/summarize with a non-empty text and a target_lang set
\* always answers 200, and when the translation call fails in any way the
\* summary is the untranslated heuristic summary.
C3_SummarizeSwallowsTranslationFailure ==
    (Answered("POST /api/summarize") /\ Strip(request.text) /= <<>>
        /\ request.target_lang \notin {None, ""}) =>
    /\ response.status = 200
    /\ translation.called
    /\ translation.outcome.kind /= "ok" =>
          /\ response.body.summary = translation.q
          /\ response.body.summary = HeuristicSummary(Strip(request.text))

\* the endpoint was unreachable while a four-sentence text was summarised
C3_Witness ==
    /\ Answered("POST /api/summarize")
    /\ request.target_lang = "es"
    /\ translation.called
    /\ translation.outcome.kind = "unreachable"
    /\ Len(SplitSentences(Strip(request.text))) = 4
    /\ response.status = 200
    /\ response.body.summary /= Strip(request.text)

(***************************************************************************)
(* Claims about POST /api/ask, under SpecAsk.                              *)
(***************************************************************************)
\* content contains keyword as a case-insensitive substring
ContainsIgnoringCase(content, keyword) ==
    \E k \in 0..(Len(content) - Len(keyword)) :
        \A i \in 1..Len(keyword) : LowerChar(content[k + i]) = LowerChar(keyword[i])

\* the whitespace-separated tokens of q longer than three characters, lowercased
KeywordSet(q) ==
    { Lower(SubSeq(q, p[1], p[2])) :
        p \in { p \in (1..Len(q)) \X (1..Len(q)) :
                  /\ p[2] - p[1] >= 3
                  /\ \A k \in p[1]..p[2] : ~IsSpace(q[k])
                  /\ p[1] = 1 \/ IsSpace(q[p[1] - 1])
                  /\ p[2] = Len(q) \/ IsSpace(q[p[2] + 1]) } }

\* the question is empty or only whitespace
Blank(q) == \A i \in 1..Len(q) : IsSpace(q[i])

\* C4, as stated: 400 for a blank question, 200 for every other question
\* whatever the store and the translation service do, and the fixed fallback
\* message whenever retrieval yields no notes.
C4_FallbackVerbatim ==
    Answered("POST /api/ask") =>
    /\ Blank(request.question) => response.status = 400
    /\ ~Blank(request.question) =>
          /\ response.status = 200
          /\ storeio.docs = <<>> => response.body.answer = FallbackAnswer

\* C4, amended: as above, except that with a target_lang set and a response
\* carrying translated text the answer is the service's translation of the
\* fallback message.
C4_FallbackOrItsTranslation ==
    Answered("POST /api/ask") =>
    /\ Blank(request.question) => response.status = 400
    /\ ~Blank(request.question) =>
          /\ response.status = 200
          /\ storeio.docs = <<>> =>
                IF request.target_lang \notin {None, ""} /\ translation.outcome.kind = "ok"
                THEN /\ translation.q = FallbackAnswer
                     /\ response.body.answer = translation.outcome.text
                ELSE response.body.answer = FallbackAnswer

\* the store query failed on a store holding a matching note, and the
\* answer is the translation of the fallback message
C4_Witness ==
    /\ Answered("POST /api/ask")
    /\ \E i \in 1..Len(memorynote) :
          \E k \in KeywordSet(request.question) :
             ContainsIgnoringCase(memorynote[i]["content"], k)
    /\ storeio.called /\ ~storeio.ok /\ db
    /\ response.status = 200
    /\ translation.called /\ translation.q = FallbackAnswer
    /\ response.body.answer = translation.outcome.text
    /\ response.body.answer /= FallbackAnswer

\* C10: with zero keywords POST /api/ask queries "memorynote" with an empty
\* filter and limit 20, builds the answer from up to 20 stored notes
\* whatever their content, and falls back only on an empty context; with a
\* keyword the notes used all contain some keyword case-insensitively.
C10_KeywordsAreSubstrings ==
    (Answered("POST /api/ask") /\ ~Blank(request.question) /\ storeio.ok) =>
    LET kw == KeywordSet(request.question)
        context == Context(storeio.docs)
    IN  /\ storeio.collection = "memorynote" /\ storeio.limit = 20
        /\ kw = {} =>
              /\ storeio.filter = FilterAll
              /\ storeio.docs = SubSeq(memorynote, 1, IF Len(memorynote) < 20
                                                      THEN Len(memorynote) ELSE 20)
              /\ IF translation.called THEN (translation.q = FallbackAnswer) <=> (context = <<>>)
                 ELSE (response.body.answer = FallbackAnswer) <=> (context = <<>>)
        /\ kw /= {} =>
              \A i \in 1..Len(storeio.docs) :
                 \E k \in kw : ContainsIgnoringCase(storeio.docs[i]["content"], k)

(***************************************************************************)
(* Claims about the memory and conversation routes.                        *)
(***************************************************************************)
StoreRoutes ==
    { "POST /api/memory", "GET /api/memory", "POST /api/conversation", "GET /api/conversation" }

\* the note posted by the request of the current state is among the items
Listed(items, content, tags) ==
    \E i \in 1..Len(items) :
        /\ items[i]["content"] = content
        /\ items[i]["tags"] = tags
        /\ "id" \in DOMAIN items[i]
        /\ items[i]["id"] /= <<>>

\* a note was posted and the next request lists the notes with no tag and
\* the default limit, both answered 200
PostThenList ==
    /\ request.route = "POST /api/memory" /\ response.status = 200
    /\ request'.route = "GET /api/memory" /\ response'.status = 200
    /\ request'.tag = None /\ request'.limit = DefaultMemoryLimit

\* C5, as stated: after any prior requests, a successful POST /api/memory
\* followed by GET /api/memory with no tag and the default limit returns an
\* item with the posted content and tags and a non-empty string id.
C5_RoundTripAlways ==
    [][PostThenList => Listed(response'.body.items, request.content, request.tags)]_vars

\* C5, amended: the same, provided the collection holds at most 50 notes
\* once the note is posted.
C5_RoundTripWithinLimit ==
    [][(PostThenList /\ Len(memorynote) <= DefaultMemoryLimit) =>
          Listed(response'.body.items, request.content, request.tags)]_vars

\* a listing of the 50 notes of a store whose 50th note was just saved
C5_Witness ==
    /\ Answered("GET /api/memory") /\ response.status = 200
    /\ request.tag = None /\ request.limit = DefaultMemoryLimit
    /\ Len(memorynote) = DefaultMemoryLimit
    /\ Saved = 1
    /\ Listed(response.body.items, memorynote[Len(memorynote)]["content"],
              memorynote[Len(memorynote)]["tags"])

\* C6: for every value X of the tag parameter, the empty string included,
\* each item GET /api/memory?tag=X returns is a stored note whose tags
\* contain X.
C6_TagFilter ==
    (Answered("GET /api/memory") /\ request.tag /= None /\ response.status = 200) =>
    \A i \in 1..Len(response.body.items) :
        /\ \E j \in 1..Len(memorynote) :
              /\ response.body.items[i]["content"] = memorynote[j]["content"]
              /\ response.body.items[i]["tags"] = memorynote[j]["tags"]
        /\ \E k \in 1..Len(response.body.items[i]["tags"]) :
              response.body.items[i]["tags"][k] = request.tag

\* item is the document of the collection with "_id" replaced by "id", the
\* string form of the identifier
Exposes(item, coll) ==
    /\ "id" \in DOMAIN item
    /\ "_id" \notin DOMAIN item
    /\ \E j \in 1..Len(coll) :
          /\ item["id"] = Str(coll[j]["_id"])
          /\ DOMAIN item = (DOMAIN coll[j] \ {"_id"}) \cup {"id"}
          /\ \A k \in DOMAIN item \ {"id"} : item[k] = coll[j][k]

\* C7: in every 200 response of GET /api/memory and GET /api/conversation
\* each item has an "id" that is the string form of the record's
\* store-assigned identifier, and no "_id".
C7_IdIsString ==
    /\ (Answered("GET /api/memory") /\ response.status = 200) =>
          \A i \in 1..Len(response.body.items) : Exposes(response.body.items[i], memorynote)
    /\ (Answered("GET /api/conversation") /\ response.status = 200) =>
          \A i \in 1..Len(response.body.items) :
              Exposes(response.body.items[i], conversationturn)

\* a listing of two notes, saved after a conversation turn was logged
C7_Witness ==
    /\ Answered("GET /api/memory") /\ response.status = 200
    /\ conversationturn /= <<>>
    /\ Len(response.body.items) = 2
    /\ response.body.items[2]["id"] = <<"3">>

\* C8: when the store is unavailable or a store operation fails, each of the
\* four memory and conversation routes answers 500 with an error detail, no
\* record is added to any collection, and the service takes further requests.
C8_StoreFailureIs500 ==
    [][(request'.route \in StoreRoutes /\ storeio'.called /\ ~storeio'.ok) =>
          /\ response'.status = 500
          /\ response'.detail /= ""
          /\ memorynote' = memorynote
          /\ conversationturn' = conversationturn]_vars

\* a save failed on a store that had taken a note before
C8_Witness ==
    /\ Answered("POST /api/memory")
    /\ storeio.called /\ ~storeio.ok
    /\ response.status = 500
    /\ memorynote /= <<>>

\* coll grew by exactly one record, the records before it unchanged
GrewByOne(before, after) ==
    /\ Len(after) = Len(before) + 1
    /\ SubSeq(after, 1, Len(before)) = before

\* C9: a successful POST /api/memory adds exactly one record to
\* "memorynote" and a successful POST /api/conversation exactly one to
\* "conversationturn", each leaving the other collection unchanged; every
\* other request leaves both unchanged; no record is modified or removed.
C9_AppendOnly ==
    [][IF request'.route = "POST /api/memory" /\ response'.status = 200
       THEN GrewByOne(memorynote, memorynote') /\ conversationturn' = conversationturn
       ELSE IF request'.route = "POST /api/conversation" /\ response'.status = 200
       THEN GrewByOne(conversationturn, conversationturn') /\ memorynote' = memorynote
       ELSE memorynote' = memorynote /\ conversationturn' = conversationturn]_vars

\* a turn was logged into a store that holds notes
C9_Witness ==
    /\ Answered("POST /api/conversation") /\ response.status = 200
    /\ Len(conversationturn) = 1
    /\ Len(memorynote) = MaxNotes

====
